---- MODULE Spec2Model ----
(***************************************************************************)
(* The release-artifact schema of Modes.py (Feature, Model, Executable,    *)
(* SharedLibrary, UnpackingRecord) as a store of rows, together with the   *)
(* operations the field declarations give meaning to: insert, update by    *)
(* save(), update by QuerySet.update(), delete, and adding or removing a   *)
(* many-to-many link of a Feature.  The constraints are the ones the       *)
(* declarations create: unique=True on name, the >= 0 check of a           *)
(* PositiveIntegerField, the two foreign keys of an auto-created           *)
(* many-to-many table (ON DELETE CASCADE), auto_now_add and auto_now.      *)
(***************************************************************************)
EXTENDS Integers, FiniteSets, TLC

\* ---------------------------------------------------------------- bounds
\* Rows ever inserted, over all five tables (the AutoField sequences).
MaxCreates == 2
\* Last reading of the clock.
MaxClock == 1

\* ---------------------------------------------------------------- inputs
Names == {"libcore", "offline-mode"}
Versions == {"1.2.0"}
ReleaseDates == {0}
SizeInputs == {-1, 1}

\* ---------------------------------------------------------------- schema
EntityTypes == {"Feature", "Model", "Executable", "SharedLibrary", "UnpackingRecord"}

ArtifactTypes == {"Model", "Executable", "SharedLibrary"}

\* The four ManyToManyFields of Feature, each with the table it points to.
RelationTarget ==
  [related_models    |-> "Model",
   shared_libraries  |-> "SharedLibrary",
   unpacking_records |-> "UnpackingRecord",
   executable        |-> "Executable"]

Relations == DOMAIN RelationTarget

\* Fields that carry default= (or blank=True on a CharField, whose default
\* is the empty string) and so may be left out of an insert.
OptionalFields(t) ==
  CASE t = "Feature"         -> {"force_upgrade"}
    [] t = "Model"           -> {"type", "interface_modified", "folder", "force_upgrade", "size"}
    [] t = "Executable"      -> {"type", "folder", "force_upgrade", "size"}
    [] t = "SharedLibrary"   -> {"type", "folder", "force_upgrade", "size"}
    [] t = "UnpackingRecord" -> {"from_type", "from_name", "target_file_name", "target_dir"}

\* A value a caller supplies for an optional field, different from its default.
Explicit(f, sz) ==
  CASE f = "size"               -> sz
    [] f = "force_upgrade"      -> TRUE
    [] f = "interface_modified" -> TRUE
    [] f = "type"               -> "custom"
    [] f = "folder"             -> "sub/dir"
    [] OTHER                    -> "given"

\* A DateTimeField of an instance that was never saved.
None == "None"

\* The value of optional field f of a new row.
Given(f, supplied, sz, default) == IF f \in supplied THEN Explicit(f, sz) ELSE default

FeatureRow(name, req, supplied, sz) ==
  [name          |-> name,
   version       |-> req.version,
   release_date  |-> req.release_date,
   force_upgrade |-> Given("force_upgrade", supplied, sz, FALSE),
   created_at    |-> None,
   updated_at    |-> None]

ModelRow(name, req, supplied, sz) ==
  [name               |-> name,
   type               |-> Given("type", supplied, sz, "models"),
   version            |-> req.version,
   release_date       |-> req.release_date,
   interface_modified |-> Given("interface_modified", supplied, sz, FALSE),
   folder             |-> Given("folder", supplied, sz, ""),
   force_upgrade      |-> Given("force_upgrade", supplied, sz, FALSE),
   cn_addr            |-> "json",
   foreign_addr       |-> "json",
   oss_addr           |-> "json",
   size               |-> Given("size", supplied, sz, 0),
   created_at         |-> None,
   updated_at         |-> None]

ExecutableRowNoFlag(name, req, supplied, sz) ==
  [name          |-> name,
   type          |-> Given("type", supplied, sz, "exe"),
   version       |-> req.version,
   release_date  |-> req.release_date,
   folder        |-> Given("folder", supplied, sz, ""),
   oss_addr      |-> "json",
   size          |-> Given("size", supplied, sz, 0),
   created_at    |-> None,
   updated_at    |-> None]

ExecutableRow(name, req, supplied, sz) ==
  [name          |-> name,
   type          |-> Given("type", supplied, sz, "exe"),
   version       |-> req.version,
   release_date  |-> req.release_date,
   folder        |-> Given("folder", supplied, sz, ""),
   force_upgrade |-> Given("force_upgrade", supplied, sz, FALSE),
   oss_addr      |-> "json",
   size          |-> Given("size", supplied, sz, 0),
   created_at    |-> None,
   updated_at    |-> None]

SharedLibraryRowAsExe(name, req, supplied, sz) ==
  [name          |-> name,
   type          |-> Given("type", supplied, sz, "exe"),
   version       |-> req.version,
   release_date  |-> req.release_date,
   folder        |-> Given("folder", supplied, sz, ""),
   force_upgrade |-> Given("force_upgrade", supplied, sz, FALSE),
   oss_addr      |-> "json",
   size          |-> Given("size", supplied, sz, 0),
   created_at    |-> None,
   updated_at    |-> None]

SharedLibraryRow(name, req, supplied, sz) ==
  [name          |-> name,
   type          |-> Given("type", supplied, sz, "sharelib"),
   version       |-> req.version,
   release_date  |-> req.release_date,
   folder        |-> Given("folder", supplied, sz, ""),
   force_upgrade |-> Given("force_upgrade", supplied, sz, FALSE),
   oss_addr      |-> "json",
   size          |-> Given("size", supplied, sz, 0),
   created_at    |-> None,
   updated_at    |-> None]

UnpackingRecordRow(name, req, supplied, sz) ==
  [name             |-> name,
   from_type        |-> Given("from_type", supplied, sz, ""),
   from_name        |-> Given("from_name", supplied, sz, ""),
   source_path      |-> "pkg.zip",
   target_file_name |-> Given("target_file_name", supplied, sz, ""),
   target_dir       |-> Given("target_dir", supplied, sz, ""),
   created_at       |-> None,
   updated_at       |-> None]

NewRow(t, name, req, supplied, sz) ==
  CASE t = "Feature"         -> FeatureRow(name, req, supplied, sz)
    [] t = "Model"           -> ModelRow(name, req, supplied, sz)
    [] t = "Executable"      -> ExecutableRow(name, req, supplied, sz)
    [] t = "SharedLibrary"   -> SharedLibraryRow(name, req, supplied, sz)
    [] t = "UnpackingRecord" -> UnpackingRecordRow(name, req, supplied, sz)

\* ----------------------------------------------------------------- state
VARIABLES
  rows,    \* rows[t]: the stored rows of table t, by primary key
  seq,     \* seq[t]: the last primary key the table's AutoField issued
  links,   \* rows of the many-to-many tables: <<relation, feature id, target id>>
  now,     \* the clock reading that auto_now / auto_now_add take
  last     \* the most recent operation: the request and its outcome

vars == <<rows, seq, links, now, last>>

Stored(t) == DOMAIN rows[t]

Ids == 1..MaxCreates

Issued == seq["Feature"] + seq["Model"] + seq["Executable"]
          + seq["SharedLibrary"] + seq["UnpackingRecord"]

NoRows == [id \in {} |-> id]

Request(op, t, id, name, supplied, sz, field, value, violated) ==
  [op |-> op, type |-> t, id |-> id, name |-> name, supplied |-> supplied,
   size |-> sz, field |-> field, value |-> value,
   err |-> IF violated = {} THEN "ok" ELSE "IntegrityError",
   violated |-> violated]

Init ==
  /\ rows = [t \in EntityTypes |-> NoRows]
  /\ seq = [t \in EntityTypes |-> 0]
  /\ links = {}
  /\ now = 0
  /\ last = Request("none", "Feature", 0, "", {}, 0, "", "", {})

\* ------------------------------------------------------------ constraints
UniqueNotEnforced(t, name, self) == FALSE

UniqueOnInsertOnly(t, name, self) ==
  /\ self \notin Stored(t)
  /\ \E o \in Stored(t) : rows[t][o].name = name

\* unique=True on name: another row of the same table holds the name.
UniqueViolated(t, name, self) ==
  \E o \in Stored(t) \ {self} : rows[t][o].name = name

CheckNotEnforced(t, row) == FALSE

\* PositiveIntegerField: the column's CHECK (size >= 0).
CheckViolated(t, row) == t \in ArtifactTypes /\ row.size < 0

Violations(t, row, self) ==
  (IF UniqueViolated(t, row.name, self) THEN {"unique"} ELSE {})
    \cup (IF CheckViolated(t, row) THEN {"check"} ELSE {})

PreSaveStampsBoth(row, add, at) ==
  [row EXCEPT !.created_at = at, !.updated_at = at]

PreSaveOnInsertOnly(row, add, at) ==
  [row EXCEPT !.created_at = IF add THEN at ELSE @,
              !.updated_at = IF add THEN at ELSE @]

\* DateTimeField.pre_save: auto_now stamps on every save, auto_now_add only
\* on the insert.
PreSave(row, add, at) ==
  [row EXCEPT !.created_at = IF add THEN at ELSE @,
              !.updated_at = at]

Put(f, id, row) == [i \in DOMAIN f \cup {id} |-> IF i = id THEN row ELSE f[i]]

Remove(f, id) == [i \in DOMAIN f \ {id} |-> f[i]]

InsertedLinksToAll(t, id) ==
  IF t = "Feature"
  THEN {<<"related_models", id, o>> : o \in Stored("Model")}
  ELSE {<<"related_models", f, id>> : f \in IF t = "Model" THEN Stored("Feature") ELSE {}}

\* The many-to-many rows an insert writes: none, a relation is filled by add().
InsertedLinks(t, id) == {}

CascadedLinksNone(t, id) == {}

\* The many-to-many rows that reference row id of table t: their foreign keys
\* are ON DELETE CASCADE.
CascadedLinks(t, id) ==
  {l \in links : \/ t = "Feature" /\ l[2] = id
                 \/ RelationTarget[l[1]] = t /\ l[3] = id}

DeleteRowsCascading(t, id) ==
  LET gone == IF t = "Feature" THEN {id}
              ELSE {l[2] : l \in {k \in links : RelationTarget[k[1]] = t /\ k[3] = id}}
  IN [u \in EntityTypes |->
        IF u = "Feature" THEN [i \in Stored(u) \ gone |-> rows[u][i]]
        ELSE IF u = t THEN Remove(rows[u], id) ELSE rows[u]]

\* The tables after row id of table t is deleted: no entity row references
\* another, so only that row goes.
DeleteRows(t, id) == [rows EXCEPT ![t] = Remove(@, id)]

\* ------------------------------------------------------------- operations
UpdatableFields(t) ==
  CASE t = "Feature"         -> {"name", "force_upgrade"}
    [] t \in ArtifactTypes   -> {"name", "size"}
    [] t = "UnpackingRecord" -> {"name", "target_dir"}

ValuesOf(f) ==
  CASE f = "name"          -> Names
    [] f = "size"          -> SizeInputs
    [] f = "force_upgrade" -> BOOLEAN
    [] f = "target_dir"    -> {"", "out"}

\* Model(**kwargs).save(): INSERT.
Create(t, name, req, supplied, sz) ==
  LET id  == seq[t] + 1
      row == PreSave(NewRow(t, name, req, supplied, sz), TRUE, now)
      bad == Violations(t, row, id)
  IN /\ Issued < MaxCreates
     /\ IF bad = {}
        THEN /\ rows' = [rows EXCEPT ![t] = Put(@, id, row)]
             /\ seq' = [seq EXCEPT ![t] = id]
             /\ links' = links \cup InsertedLinks(t, id)
        ELSE UNCHANGED <<rows, seq, links>>
     /\ last' = Request("create", t, id, name, supplied, sz, "", "", bad)
     /\ UNCHANGED now

\* obj = get(pk=id); obj.field = value; obj.save(): UPDATE of every column.
Save(t, id, field, value) ==
  LET row == PreSave([rows[t][id] EXCEPT ![field] = value], FALSE, now)
      bad == Violations(t, row, id)
  IN /\ id \in Stored(t)
     /\ rows' = IF bad = {} THEN [rows EXCEPT ![t][id] = row] ELSE rows
     /\ last' = Request("save", t, id, "", {}, 0, field, value, bad)
     /\ UNCHANGED <<seq, links, now>>

\* filter(pk=id).update(field=value): UPDATE of that column, no pre_save.
QuerySetUpdate(t, id, field, value) ==
  LET row == [rows[t][id] EXCEPT ![field] = value]
      bad == Violations(t, row, id)
  IN /\ id \in Stored(t)
     /\ rows' = IF bad = {} THEN [rows EXCEPT ![t][id] = row] ELSE rows
     /\ last' = Request("update", t, id, "", {}, 0, field, value, bad)
     /\ UNCHANGED <<seq, links, now>>

\* obj.delete(); it reports how many many-to-many rows went with the row.
Delete(t, id) ==
  /\ id \in Stored(t)
  /\ rows' = DeleteRows(t, id)
  /\ links' = links \ CascadedLinks(t, id)
  /\ last' = Request("delete", t, id, "", {}, 0, "", Cardinality(CascadedLinks(t, id)), {})
  /\ UNCHANGED <<seq, now>>

\* feature.<rel>.add(target): INSERT into the many-to-many table.
Link(rel, fid, oid) ==
  LET bad == IF fid \in Stored("Feature") /\ oid \in Stored(RelationTarget[rel])
             THEN {} ELSE {"foreign_key"}
  IN /\ links' = IF bad = {} THEN links \cup {<<rel, fid, oid>>} ELSE links
     /\ last' = Request("link", "Feature", 0, "", {}, 0, "", "", bad)
     /\ UNCHANGED <<rows, seq, now>>

\* feature.<rel>.remove(target)
Unlink(rel, fid, oid) ==
  /\ <<rel, fid, oid>> \in links
  /\ links' = links \ {<<rel, fid, oid>>}
  /\ last' = Request("unlink", "Feature", 0, "", {}, 0, "", "", {})
  /\ UNCHANGED <<rows, seq, now>>

\* Time passes between two readings of the clock.
Tick ==
  /\ now < MaxClock
  /\ now' = now + 1
  /\ last' = Request("tick", "Feature", 0, "", {}, 0, "", "", {})
  /\ UNCHANGED <<rows, seq, links>>

Required == [version : Versions, release_date : ReleaseDates]

SuppliedChoices(t) == {{}, OptionalFields(t)}

Next ==
  \/ \E t \in EntityTypes, name \in Names, req \in Required :
       \E supplied \in SuppliedChoices(t) :
         \E sz \in (IF "size" \in supplied THEN SizeInputs ELSE {0}) :
           Create(t, name, req, supplied, sz)
  \/ \E t \in EntityTypes, id \in Ids :
       \E field \in UpdatableFields(t) :
         \E value \in ValuesOf(field) : QuerySetUpdate(t, id, field, value)
  \/ \E t \in EntityTypes, id \in Ids :
       \E field \in UpdatableFields(t) :
         \E value \in ValuesOf(field) : Save(t, id, field, value)
  \/ \E t \in EntityTypes, id \in Ids : Delete(t, id)
  \/ \E rel \in Relations, fid \in Ids, oid \in Ids : Link(rel, fid, oid)
  \/ \E rel \in Relations, fid \in Ids, oid \in Ids : Unlink(rel, fid, oid)
  \/ Tick

Spec == Init /\ [][Next]_vars

\* ---------------------------------------------------------------- claims
Ok == last.err = "ok"

Target == rows[last.type][last.id]

\* C1: an insert whose name is already held by a stored row of the same table
\* fails with an IntegrityError of the unique constraint, and the rows of
\* every table and the links of every Feature stay as they were.
C1_DuplicateNameRejected ==
  [][(/\ last'.op = "create"
      /\ \E o \in Stored(last'.type) : rows[last'.type][o].name = last'.name)
     => (/\ last'.err = "IntegrityError"
         /\ "unique" \in last'.violated
         /\ rows' = rows
         /\ links' = links)]_vars

C1_Witness ==
  /\ last.op = "create"
  /\ last.type = "SharedLibrary"
  /\ last.name = "libcore"
  /\ last.err = "IntegrityError"
  /\ last.violated = {"unique"}
  /\ \E o \in Stored("SharedLibrary") : rows["SharedLibrary"][o].name = "libcore"

\* C2: created_at is written once, by the insert, with the clock reading of
\* the insert; no later operation on the row changes it.
C2_CreatedAtSetOnce ==
  [][\A t \in EntityTypes : \A id \in DOMAIN rows'[t] :
       IF id \in Stored(t)
       THEN rows'[t][id].created_at = rows[t][id].created_at
       ELSE rows'[t][id].created_at = now]_vars

C2_Witness ==
  /\ last.op = "save"
  /\ Ok
  /\ last.type = "Model"
  /\ last.field = "size"
  /\ Target.created_at < Target.updated_at

\* C3 as stated: every update of a stored row, issued by save() or by
\* QuerySet.update(), leaves updated_at later than it was.
C3_EveryUpdateAdvances ==
  [][(last'.op \in {"save", "update"} /\ last'.err = "ok")
     => rows'[last'.type][last'.id].updated_at > rows[last'.type][last'.id].updated_at]_vars

\* C3 as amended: an update by save() sets updated_at to the clock reading of
\* the save, never earlier than the old value and later when the clock has
\* advanced since; an update by QuerySet.update() leaves updated_at alone.
C3_SaveStampsUpdatedAt ==
  [][/\ (last'.op = "save" /\ last'.err = "ok")
        => /\ rows'[last'.type][last'.id].updated_at = now
           /\ rows'[last'.type][last'.id].updated_at >= rows[last'.type][last'.id].updated_at
           /\ (now > rows[last'.type][last'.id].updated_at
                 => rows'[last'.type][last'.id].updated_at
                      > rows[last'.type][last'.id].updated_at)
     /\ (last'.op = "update" /\ last'.err = "ok")
        => rows'[last'.type][last'.id].updated_at
             = rows[last'.type][last'.id].updated_at]_vars

C3_Witness ==
  /\ last.op = "save"
  /\ Ok
  /\ last.type = "Feature"
  /\ Target.updated_at = now
  /\ Target.created_at < now

\* C4: a Model, Executable or SharedLibrary inserted without a size has size
\* 0, every stored one has size >= 0, and an insert or update that supplies a
\* negative size fails on the column's check and changes no stored row.
C4_SizeNonNegative ==
  /\ [](/\ \A t \in ArtifactTypes : \A id \in Stored(t) : rows[t][id].size >= 0
        /\ (last.op = "create" /\ Ok /\ last.type \in ArtifactTypes
              /\ "size" \notin last.supplied)
           => Target.size = 0)
  /\ [][(\/ last'.op = "create" /\ "size" \in last'.supplied /\ last'.size < 0
         \/ last'.op \in {"save", "update"} /\ last'.field = "size" /\ last'.value < 0)
        => (/\ last'.err = "IntegrityError"
            /\ "check" \in last'.violated
            /\ rows' = rows)]_vars

C4_Witness ==
  /\ last.op = "save"
  /\ last.type = "Executable"
  /\ last.field = "size"
  /\ last.value < 0
  /\ last.err = "IntegrityError"
  /\ Target.size = 1

\* C5: every link of a Feature references a stored Feature and a stored row
\* of the relation's table, also after a linked row was deleted.
C5_LinksReferenceStoredRows ==
  \A l \in links :
    /\ l[2] \in Stored("Feature")
    /\ l[3] \in Stored(RelationTarget[l[1]])

C5_Witness ==
  /\ last.op = "delete"
  /\ last.type = "Executable"
  /\ last.value > 0
  /\ Stored("Feature") # {}
  /\ links = {}

\* C6: an insert of a Feature with name, version and release_date succeeds
\* and the new Feature has no link in any of its four relations.
C6_NewFeatureHasNoLinks ==
  (last.op = "create" /\ last.type = "Feature" /\ ~ UniqueViolated("Feature", last.name, last.id))
    => /\ Ok
       /\ last.id \in Stored("Feature")
       /\ \A rel \in Relations : {l \in links : l[1] = rel /\ l[2] = last.id} = {}

C6_Witness ==
  /\ last.op = "create"
  /\ last.type = "Feature"
  /\ Ok
  /\ last.name = "offline-mode"
  /\ Target.version = "1.2.0"
  /\ Stored("Model") # {}

\* C7: a delete removes the one row it names; every other row of every table
\* stays stored with all its fields as they were, linked or not.
C7_DeleteDoesNotCascade ==
  [][last'.op = "delete"
     => \A t \in EntityTypes :
          /\ DOMAIN rows'[t]
               = Stored(t) \ (IF t = last'.type THEN {last'.id} ELSE {})
          /\ \A id \in DOMAIN rows'[t] : rows'[t][id] = rows[t][id]]_vars

C7_Witness ==
  /\ last.op = "delete"
  /\ last.type = "Model"
  /\ last.value > 0
  /\ Stored("Feature") # {}

CommonShape ==
  {"name", "version", "release_date", "force_upgrade", "created_at", "updated_at"}

\* C8 as stated: every stored row of each of the five tables has name,
\* version, release_date, force_upgrade, created_at and updated_at.
C8_AllCarryCommonShape ==
  \A t \in EntityTypes : \A id \in Stored(t) : CommonShape \subseteq DOMAIN rows[t][id]

\* C8 as amended: every stored Feature, Model, Executable and SharedLibrary
\* has the six common fields; an UnpackingRecord has name, created_at and
\* updated_at and none of version, release_date, force_upgrade.
C8_FourCarryCommonShape ==
  /\ \A t \in EntityTypes \ {"UnpackingRecord"} : \A id \in Stored(t) :
       /\ CommonShape \subseteq DOMAIN rows[t][id]
       /\ rows[t][id].version \in Versions
       /\ rows[t][id].release_date \in ReleaseDates
       /\ rows[t][id].force_upgrade \in BOOLEAN
  /\ \A id \in Stored("UnpackingRecord") :
       CommonShape \cap DOMAIN rows["UnpackingRecord"][id]
         = {"name", "created_at", "updated_at"}

C8_Witness ==
  /\ Stored("UnpackingRecord") # {}
  /\ Stored("Executable") # {}

\* C9: no two stored rows of one table have the same name, whatever inserts,
\* renames and deletes came before; rows of different tables may.
C9_NameUniquePerType ==
  \A t \in EntityTypes : \A a \in Stored(t), b \in Stored(t) :
    a # b => rows[t][a].name # rows[t][b].name

C9_Witness ==
  /\ \E m \in Stored("Model"), e \in Stored("Executable") :
       rows["Model"][m].name = rows["Executable"][e].name
  /\ last.op \in {"save", "update"}
  /\ last.field = "name"
  /\ Ok

\* C10: a row inserted with only its required fields has the declared
\* defaults: type "models" / "exe" / "sharelib", folder "", force_upgrade
\* FALSE, and interface_modified FALSE for a Model.
C10_DeclaredDefaults ==
  (last.op = "create" /\ Ok /\ last.supplied = {})
    => /\ last.type \in ArtifactTypes \cup {"Feature"} => Target.force_upgrade = FALSE
       /\ last.type \in ArtifactTypes => Target.folder = ""
       /\ last.type = "Model"
            => Target.type = "models" /\ Target.interface_modified = FALSE
       /\ last.type = "Executable" => Target.type = "exe"
       /\ last.type = "SharedLibrary" => Target.type = "sharelib"

C10_Witness ==
  /\ last.op = "create"
  /\ Ok
  /\ last.supplied = {}
  /\ last.type = "SharedLibrary"
  /\ Target.type = "sharelib"
  /\ Target.folder = ""
====
